---- MODULE Spec2Model ----
(***************************************************************************)
(* Model of scripts/load-content.js: the content binder of the profile     *)
(* page.  JavaScript values are tagged records, JavaScript strings are     *)
(* TLA+ strings, the DOM is a record of the slots the binder writes.       *)
(***************************************************************************)
EXTENDS Integers, Sequences, FiniteSets, TLC

VARIABLES phase, fetches, net, config, dom, log, applied, threw,
          box, lastCall,
          gtree, gpath, gres

vars == <<phase, fetches, net, config, dom, log, applied, threw,
          box, lastCall, gtree, gpath, gres>>

loadVars == <<phase, fetches, net, config, dom, log, applied, threw>>
fillVars == <<box, lastCall>>
getVars == <<gtree, gpath, gres>>

(***************************************************************************)
(* Bounds                                                                  *)
(***************************************************************************)
\* longest item sequence handed to a container filler
MaxItems == 2

(***************************************************************************)
(* JavaScript values                                                       *)
(***************************************************************************)
Null == [t |-> "null"]
Undef == [t |-> "undef"]
Str(s) == [t |-> "str", s |-> s]
Num(n) == [t |-> "num", n |-> n]
Bool(b) == [t |-> "bool", b |-> b]
Arr(s) == [t |-> "arr", items |-> s]
Obj(f) == [t |-> "obj", props |-> f]
Fn(n) == [t |-> "fn", name |-> n]
EmptyObj == Obj([k \in {} |-> Null])

\* ToBoolean: what `!x`, `x && ..`, `x || ..` and `if (x)` test
Truthy(x) ==
  CASE x.t = "null" -> FALSE
    [] x.t = "undef" -> FALSE
    [] x.t = "bool" -> x.b
    [] x.t = "num" -> x.n # 0
    [] x.t = "str" -> x.s # ""
    [] OTHER -> TRUE

\* `x != null` is false exactly for null and undefined
NotNullish(x) == x.t # "null" /\ x.t # "undef"

\* `a || b`
OrElse(a, b) == IF Truthy(a) THEN a ELSE b

Digit(d) == SubSeq("0123456789", d + 1, d + 1)

RECURSIVE NumToString(_)
NumToString(n) ==
  IF n < 10 THEN Digit(n) ELSE NumToString(n \div 10) \o Digit(n % 10)

RECURSIVE ToStr(_)
RECURSIVE JoinFrom(_, _)
\* Array.prototype.join(","): null and undefined elements give ""
JoinFrom(s, i) ==
  IF i > Len(s) THEN ""
  ELSE (IF NotNullish(s[i]) THEN ToStr(s[i]) ELSE "")
       \o (IF i < Len(s) THEN "," ELSE "")
       \o JoinFrom(s, i + 1)

\* ToString, applied by the DOM setters and by String.prototype.replace
ToStr(x) ==
  CASE x.t = "str" -> x.s
    [] x.t = "num" -> NumToString(x.n)
    [] x.t = "bool" -> (IF x.b THEN "true" ELSE "false")
    [] x.t = "null" -> "null"
    [] x.t = "undef" -> "undefined"
    [] x.t = "arr" -> JoinFrom(x.items, 1)
    [] x.t = "obj" -> "[object Object]"
    [] OTHER -> "function " \o x.name \o "() { [native code] }"

\* property names every object inherits from Object.prototype
ProtoKeys == {"constructor", "toString"}

ArrayIndex(key) ==
  CASE key = "0" -> 0
    [] key = "1" -> 1
    [] key = "2" -> 2
    [] OTHER -> -1

\* `acc[key]` for a truthy acc: own properties, then "length" and the
\* index properties of strings and arrays, then the inherited ones
GetProp(acc, key) ==
  CASE acc.t = "obj" /\ key \in DOMAIN acc.props -> acc.props[key]
    [] acc.t = "arr" /\ key = "length" -> Num(Len(acc.items))
    [] acc.t = "arr" /\ ArrayIndex(key) >= 0 /\ ArrayIndex(key) < Len(acc.items) ->
         acc.items[ArrayIndex(key) + 1]
    [] acc.t = "str" /\ key = "length" -> Num(Len(acc.s))
    [] acc.t = "str" /\ ArrayIndex(key) >= 0 /\ ArrayIndex(key) < Len(acc.s) ->
         Str(SubSeq(acc.s, ArrayIndex(key) + 1, ArrayIndex(key) + 1))
    [] key \in ProtoKeys -> Fn(key)
    [] OTHER -> Undef

RECURSIVE SplitFrom(_, _, _)
SplitFrom(s, i, start) ==
  IF i > Len(s) THEN <<SubSeq(s, start, Len(s))>>
  ELSE IF SubSeq(s, i, i) = "."
       THEN <<SubSeq(s, start, i - 1)>> \o SplitFrom(s, i + 1, i + 1)
       ELSE SplitFrom(s, i + 1, start)

\* path.split(".")
Split(s) == SplitFrom(s, 1, 1)

\* the reducer of getValue: (acc && acc[key] != null ? acc[key] : null)
ReduceStep(acc, key) ==
  IF Truthy(acc) /\ NotNullish(GetProp(acc, key)) THEN GetProp(acc, key) ELSE Null

RECURSIVE Reduce(_, _, _)
Reduce(keys, i, acc) ==
  IF i > Len(keys) THEN acc ELSE Reduce(keys, i + 1, ReduceStep(acc, keys[i]))

getValue(obj, path) ==
  IF ~Truthy(obj) \/ path = "" THEN Null
  ELSE Reduce(Split(path), 1, obj)

(***************************************************************************)
(* The DOM                                                                 *)
(***************************************************************************)
\* what querySelector returns when nothing matches
NoElement == [exists |-> FALSE]

Nodes(s) == [k |-> "nodes", kids |-> s]
TextNode(s) == [k |-> "text", text |-> s]
Markup(s) == [k |-> "html", html |-> s]

AttrNames == {"href", "src", "alt"}

\* element.textContent = x : null gives "", "" leaves no child at all
SetTextContent(x) ==
  IF ~NotNullish(x) \/ ToStr(x) = "" THEN Nodes(<<>>) ELSE TextNode(ToStr(x))

\* element.innerHTML = x
SetInnerHTML(x) ==
  IF x.t = "null" \/ ToStr(x) = "" THEN Nodes(<<>>) ELSE Markup(ToStr(x))

\* document.createElement(tag) followed by className and one content write
NewElement(tag, class, content) ==
  [tag |-> tag, class |-> class, content |-> content]


\* setText without its `text != null` test
setText_Unguarded(el, text) ==
  IF el.exists THEN [el EXCEPT !.content = SetTextContent(text)] ELSE el

setText(el, text) ==
  IF el.exists /\ NotNullish(text)
  THEN [el EXCEPT !.content = SetTextContent(text)]
  ELSE el

setHtml(el, html) ==
  IF el.exists /\ NotNullish(html)
  THEN [el EXCEPT !.content = SetInnerHTML(html)]
  ELSE el

setAttr(el, attr, value) ==
  IF el.exists /\ NotNullish(value)
  THEN [el EXCEPT !.attrs[attr] = ToStr(value)]
  ELSE el

\* the wrapper/tag/label fragment both tag fillers build for one entry
TagWidget(tagClass, innerClass, it) ==
  NewElement("div", "tag-wrapper",
    Nodes(<<NewElement("span", tagClass,
      Nodes(<<NewElement("span", innerClass, SetTextContent(it))>>))>>))

\* what the container holds before a filler runs, as a list of children:
\* text or markup that was never parsed here counts as one opaque child
ChildrenOf(content) ==
  IF content.k = "nodes" THEN content.kids ELSE <<NewElement("#node", "", content)>>

\* the for-of loop of fillList and fillOshis: one widget appended per item
RECURSIVE AppendTags(_, _, _, _, _)
AppendTags(children, items, i, tagClass, innerClass) ==
  IF i > Len(items) THEN children
  ELSE AppendTags(Append(children, TagWidget(tagClass, innerClass, items[i])),
                  items, i + 1, tagClass, innerClass)

\* the for-of loop of fillContainer: one element appended per line
RECURSIVE AppendLines(_, _, _, _, _)
AppendLines(children, lines, i, tag, asHtml) ==
  IF i > Len(lines) THEN children
  ELSE AppendLines(
         Append(children,
                NewElement(tag, "",
                  IF asHtml THEN SetInnerHTML(lines[i]) ELSE SetTextContent(lines[i]))),
         lines, i + 1, tag, asHtml)


\* a filler that forgets to empty the container first
Cleared_Kept(container) == ChildrenOf(container.content)

\* container.innerHTML = "" : the children the loops start from
Cleared(container) == <<>>

fillList(container, items) ==
  IF ~container.exists \/ items.t # "arr" THEN container
  ELSE [container EXCEPT !.content =
          Nodes(AppendTags(Cleared(container), items.items, 1, "tag", "tag-text"))]


\* the trailing block testing `moreText != null` instead of `moreText`
AppendMore_NotNull(children, moreText) ==
  IF NotNullish(moreText)
  THEN Append(children, TagWidget("oshi-meta-tag", "oshi-meta-span", moreText))
  ELSE children

\* the trailing `if (moreText)` block of fillOshis
AppendMore(children, moreText) ==
  IF Truthy(moreText)
  THEN Append(children, TagWidget("oshi-meta-tag", "oshi-meta-span", moreText))
  ELSE children

fillOshis(container, items, moreText) ==
  IF ~container.exists \/ items.t # "arr" THEN container
  ELSE [container EXCEPT !.content =
          Nodes(AppendMore(
                  AppendTags(Cleared(container), items.items, 1, "oshi-tag", "oshi-span"),
                  moreText))]

fillContainer(container, lines, tag, asHtml) ==
  IF ~container.exists \/ lines.t # "arr" THEN container
  ELSE [container EXCEPT !.content =
          Nodes(AppendLines(Cleared(container), lines.items, 1, tag, asHtml))]

(***************************************************************************)
(* String.prototype.replace(searchString, replaceString)                   *)
(***************************************************************************)
RECURSIVE IndexFrom(_, _, _)
\* position of the first occurrence of pat in s at or after i, 0 if none
IndexFrom(s, pat, i) ==
  IF i + Len(pat) - 1 > Len(s) THEN 0
  ELSE IF SubSeq(s, i, i + Len(pat) - 1) = pat THEN i
       ELSE IndexFrom(s, pat, i + 1)

RECURSIVE GetSubstitution(_, _, _, _, _)
\* expansion of the replacement patterns; there are no captures, so $n
\* and $<name> stay literal
GetSubstitution(r, i, matched, before, after) ==
  IF i > Len(r) THEN ""
  ELSE LET c == SubSeq(r, i, i)
           n == IF i < Len(r) THEN SubSeq(r, i + 1, i + 1) ELSE ""
       IN  IF c = "$" /\ n = "$"
           THEN "$" \o GetSubstitution(r, i + 2, matched, before, after)
           ELSE IF c = "$" /\ n = "&"
           THEN matched \o GetSubstitution(r, i + 2, matched, before, after)
           ELSE IF c = "$" /\ n = "`"
           THEN before \o GetSubstitution(r, i + 2, matched, before, after)
           ELSE IF c = "$" /\ n = "'"
           THEN after \o GetSubstitution(r, i + 2, matched, before, after)
           ELSE c \o GetSubstitution(r, i + 1, matched, before, after)

\* s.replace(pat, r): only the first occurrence is replaced
Replace(s, pat, r) ==
  LET pos == IndexFrom(s, pat, 1)
  IN  IF pos = 0 THEN s
      ELSE LET before == SubSeq(s, 1, pos - 1)
               after == SubSeq(s, pos + Len(pat), Len(s))
           IN  before \o GetSubstitution(r, 1, pat, before, after) \o after

(***************************************************************************)
(* The binding table: the statements of init in source order               *)
(***************************************************************************)
B(kind, path, target, attr) ==
  [kind |-> kind, path |-> path, target |-> target, attr |-> attr]

Table == <<
  B("lang", "meta.lang", "document", "lang"),
  B("title", "meta.titleTemplate", "document", "title"),
  B("attr", "meta.favicon", "href:meta.favicon", "href"),
  B("text", "header.title", "header.title", ""),
  B("text", "header.subtitle", "header.subtitle", ""),
  B("text", "profile.title", "profile.title", ""),
  B("attr", "profile.avatarSrc", "src:profile.avatarSrc", "src"),
  B("alt", "profile.avatarAlt", "src:profile.avatarSrc", "alt"),
  B("text", "profile.labels.nickname", "profile.labels.nickname", ""),
  B("text", "profile.labels.gender", "profile.labels.gender", ""),
  B("text", "profile.labels.age", "profile.labels.age", ""),
  B("text", "profile.labels.location", "profile.labels.location", ""),
  B("text", "profile.nickname", "profile.nickname", ""),
  B("text", "profile.gender", "profile.gender", ""),
  B("text", "profile.age", "profile.age", ""),
  B("text", "profile.location", "profile.location", ""),
  B("text", "profile.catchphrase", "profile.catchphrase", ""),
  B("text", "profile.contact.title", "profile.contact.title", ""),
  B("lines", "profile.contact.lines", "profile.contact.lines", ""),
  B("attr", "profile.qrCodeSrc", "src:profile.qrCodeSrc", "src"),
  B("alt", "profile.qrCodeAlt", "src:profile.qrCodeSrc", "alt"),
  B("text", "about.title", "about.title", ""),
  B("lines", "about.intro", "about.intro", ""),
  B("text", "about.note", "about.note", ""),
  B("text", "about.sections.likes.title", "about.sections.likes.title", ""),
  B("list", "about.sections.likes.items", "about.sections.likes.items", ""),
  B("text", "about.sections.playing.title", "about.sections.playing.title", ""),
  B("list", "about.sections.playing.items", "about.sections.playing.items", ""),
  B("text", "about.sections.interests.title", "about.sections.interests.title", ""),
  B("text", "about.sections.interests.learning.label",
            "about.sections.interests.learning.label", ""),
  B("list", "about.sections.interests.learning.items",
            "about.sections.interests.learning.items", ""),
  B("text", "about.sections.interests.want.label",
            "about.sections.interests.want.label", ""),
  B("list", "about.sections.interests.want.items",
            "about.sections.interests.want.items", ""),
  B("text", "musicGames.title", "musicGames.title", ""),
  B("lines", "musicGames.content", "musicGames.content", ""),
  B("text", "achievements.title", "achievements.title", ""),
  B("lines", "achievements.content", "achievements.content", ""),
  B("text", "oshis.title", "oshis.title", ""),
  B("text", "oshis.anime.subtitle", "oshis.anime.subtitle", ""),
  B("oshis", "oshis.anime.items", "oshis.anime.items", ""),
  B("html", "oshis.cpNote", "oshis.cpNote", ""),
  B("text", "footer.copyright", "footer.copyright", ""),
  B("text", "footer.note1", "footer.note1", ""),
  B("text", "footer.note2", "footer.note2", ""),
  B("link", "footer.poweredLink", "footer.poweredLink", "href")
>>

\* the locators init hands to querySelector
Targets == {Table[i].target : i \in 1..Len(Table)} \ {"document"}

\* document.documentElement.lang = getValue(config, "meta.lang") || "zh-CN"
BindLang(cfg, d) ==
  [d EXCEPT !.lang = ToStr(OrElse(getValue(cfg, "meta.lang"), Str("zh-CN")))]

\* a value that has a replace method to call
HasReplace(x) == x.t = "str"

\* the title statement; throws iff the template is truthy and not a string
TitleThrows(cfg) ==
  LET titleTemplate == getValue(cfg, "meta.titleTemplate")
  IN  Truthy(titleTemplate) /\ ~HasReplace(titleTemplate)

BindTitle(cfg, d) ==
  LET titleTemplate == getValue(cfg, "meta.titleTemplate")
      nickname == getValue(cfg, "profile.nickname")
  IN  IF Truthy(titleTemplate)
      THEN [d EXCEPT !.title =
              Replace(titleTemplate.s, "{nickname}", ToStr(OrElse(nickname, Str(""))))]
      ELSE d

\* the footer block: href and text of the one link element
BindLink(cfg, d) ==
  LET linkEl == d.el["footer.poweredLink"]
      poweredLink == getValue(cfg, "footer.poweredLink")
  IN  IF linkEl.exists /\ Truthy(poweredLink)
      THEN LET poweredByText == OrElse(getValue(cfg, "footer.poweredBy"), poweredLink)
           IN  [d EXCEPT !.el["footer.poweredLink"] =
                  [linkEl EXCEPT !.attrs["href"] = ToStr(poweredLink),
                                 !.content = SetTextContent(poweredByText)]]
      ELSE d

\* one statement of init applied to the document
Bind(b, cfg, d) ==
  LET el == d.el[b.target]
      value == getValue(cfg, b.path)
  IN  CASE b.kind = "lang" -> BindLang(cfg, d)
        [] b.kind = "title" -> BindTitle(cfg, d)
        [] b.kind = "attr" -> [d EXCEPT !.el[b.target] = setAttr(el, b.attr, value)]
        [] b.kind = "alt" ->
             [d EXCEPT !.el[b.target] = setAttr(el, b.attr, OrElse(value, Str("")))]
        [] b.kind = "text" -> [d EXCEPT !.el[b.target] = setText(el, value)]
        [] b.kind = "html" -> [d EXCEPT !.el[b.target] = setHtml(el, value)]
        [] b.kind = "list" -> [d EXCEPT !.el[b.target] = fillList(el, value)]
        [] b.kind = "lines" ->
             [d EXCEPT !.el[b.target] = fillContainer(el, value, "div", TRUE)]
        [] b.kind = "oshis" ->
             [d EXCEPT !.el[b.target] =
                fillOshis(el, value, getValue(cfg, "oshis.anime.moreText"))]
        [] OTHER -> BindLink(cfg, d)

Throws(b, cfg) == b.kind = "title" /\ TitleThrows(cfg)

\* one statement run to its end: the document it leaves, or a throw
Step(b, cfg, d) ==
  IF Throws(b, cfg) THEN [dom |-> d, threw |-> TRUE]
  ELSE [dom |-> Bind(b, cfg, d), threw |-> FALSE]

RECURSIVE RunOrder(_, _, _, _)
\* the statements order[i..] run against d; a throw ends the run there
RunOrder(order, i, cfg, d) ==
  IF i > Len(order) THEN [dom |-> d, applied |-> Len(order), threw |-> FALSE]
  ELSE LET r == Step(Table[order[i]], cfg, d)
       IN  IF r.threw THEN [dom |-> d, applied |-> i - 1, threw |-> TRUE]
           ELSE RunOrder(order, i + 1, cfg, r.dom)

TableOrder == [i \in 1..Len(Table) |-> i]

\* the body of init after `if (!config) return`
BindingPass(cfg, d) == RunOrder(TableOrder, 1, cfg, d)

(***************************************************************************)
(* The documents the server may answer with                                *)
(***************************************************************************)
Put(f, k, v) == [x \in DOMAIN f \cup {k} |-> IF x = k THEN v ELSE f[x]]
Drop(f, k) == [x \in DOMAIN f \ {k} |-> f[x]]

RECURSIVE SetPath(_, _, _, _)
\* node with the value at keys[i..] set to v, mappings created on the way
SetPath(node, keys, i, v) ==
  LET f == IF node.t = "obj" THEN node.props ELSE EmptyObj.props
      k == keys[i]
  IN  IF i = Len(keys) THEN Obj(Put(f, k, v))
      ELSE Obj(Put(f, k, SetPath(IF k \in DOMAIN f THEN f[k] ELSE EmptyObj,
                                 keys, i + 1, v)))

RECURSIVE DeletePath(_, _, _)
DeletePath(node, keys, i) ==
  IF node.t # "obj" \/ keys[i] \notin DOMAIN node.props THEN node
  ELSE IF i = Len(keys) THEN Obj(Drop(node.props, keys[i]))
       ELSE Obj(Put(node.props, keys[i], DeletePath(node.props[keys[i]], keys, i + 1)))

With(cfg, path, v) == SetPath(cfg, Split(path), 1, v)
Without(cfg, path) == DeletePath(cfg, Split(path), 1)

\* every path init reads, in source order
PathSeq ==
  [i \in 1..Len(Table) |-> Table[i].path]
    \o <<"profile.nickname", "oshis.anime.moreText", "footer.poweredBy">>
Paths == {PathSeq[i] : i \in 1..Len(PathSeq)}

\* the document with every consumed path present and well formed: a
\* string for every text, a list of two strings for every container
FullConfig ==
  Obj([
    meta |-> Obj([
               lang |-> Str("<meta.lang>"),
               titleTemplate |-> Str("{nickname}'s nest"),
               favicon |-> Str("<meta.favicon>")]),
    header |-> Obj([
                 title |-> Str("<header.title>"),
                 subtitle |-> Str("<header.subtitle>")]),
    profile |-> Obj([
                  title |-> Str("<profile.title>"),
                  avatarSrc |-> Str("<profile.avatarSrc>"),
                  avatarAlt |-> Str("<profile.avatarAlt>"),
                  labels |-> Obj([
                               nickname |-> Str("<profile.labels.nickname>"),
                               gender |-> Str("<profile.labels.gender>"),
                               age |-> Str("<profile.labels.age>"),
                               location |-> Str("<profile.labels.location>")]),
                  nickname |-> Str("<profile.nickname>"),
                  gender |-> Str("<profile.gender>"),
                  age |-> Str("<profile.age>"),
                  location |-> Str("<profile.location>"),
                  catchphrase |-> Str("<profile.catchphrase>"),
                  contact |-> Obj([
                                title |-> Str("<profile.contact.title>"),
                                lines |-> Arr(<<Str("profile.contact.lines #1"), Str("profile.contact.lines #2")>>)]),
                  qrCodeSrc |-> Str("<profile.qrCodeSrc>"),
                  qrCodeAlt |-> Str("<profile.qrCodeAlt>")]),
    about |-> Obj([
                title |-> Str("<about.title>"),
                intro |-> Arr(<<Str("about.intro #1"), Str("about.intro #2")>>),
                note |-> Str("<about.note>"),
                sections |-> Obj([
                               likes |-> Obj([
                                           title |-> Str("<about.sections.likes.title>"),
                                           items |-> Arr(<<Str("about.sections.likes.items #1"), Str("about.sections.likes.items #2")>>)]),
                               playing |-> Obj([
                                             title |-> Str("<about.sections.playing.title>"),
                                             items |-> Arr(<<Str("about.sections.playing.items #1"), Str("about.sections.playing.items #2")>>)]),
                               interests |-> Obj([
                                               title |-> Str("<about.sections.interests.title>"),
                                               learning |-> Obj([
                                                              label |-> Str("<about.sections.interests.learning.label>"),
                                                              items |-> Arr(<<Str("about.sections.interests.learning.items #1"), Str("about.sections.interests.learning.items #2")>>)]),
                                               want |-> Obj([
                                                          label |-> Str("<about.sections.interests.want.label>"),
                                                          items |-> Arr(<<Str("about.sections.interests.want.items #1"), Str("about.sections.interests.want.items #2")>>)])])])]),
    musicGames |-> Obj([
                     title |-> Str("<musicGames.title>"),
                     content |-> Arr(<<Str("musicGames.content #1"), Str("musicGames.content #2")>>)]),
    achievements |-> Obj([
                       title |-> Str("<achievements.title>"),
                       content |-> Arr(<<Str("achievements.content #1"), Str("achievements.content #2")>>)]),
    oshis |-> Obj([
                title |-> Str("<oshis.title>"),
                anime |-> Obj([
                            subtitle |-> Str("<oshis.anime.subtitle>"),
                            items |-> Arr(<<Str("oshis.anime.items #1"), Str("oshis.anime.items #2")>>),
                            moreText |-> Str("<oshis.anime.moreText>")]),
                cpNote |-> Str("<oshis.cpNote>")]),
    footer |-> Obj([
                 copyright |-> Str("<footer.copyright>"),
                 note1 |-> Str("<footer.note1>"),
                 note2 |-> Str("<footer.note2>"),
                 poweredLink |-> Str("<footer.poweredLink>"),
                 poweredBy |-> Str("<footer.poweredBy>")])])

Strings == {"a", "b"}

RECURSIVE SeqsUpTo(_)
\* the sequences over Strings of length at most n
SeqsUpTo(n) ==
  IF n = 0 THEN {<<>>}
  ELSE SeqsUpTo(n - 1) \cup
       {Append(s, Str(x)) : s \in {q \in SeqsUpTo(n - 1) : Len(q) = n - 1},
                            x \in Strings}

ItemSeqs == SeqsUpTo(MaxItems)

\* replacement values of every JSON shape
Shapes ==
  {Null, Str(""), Str("x"), Num(0), Num(5), Bool(FALSE), Bool(TRUE),
   EmptyObj, Obj([k \in {"k"} |-> Str("v")])}
    \cup {Arr(s) : s \in ItemSeqs} \cup {Arr(<<Null, Num(5)>>)}

Templates ==
  {"", "plain", "{nickname}", "{nickname}'s nest", "the {nickname}",
   "{nickname} & {nickname}"}
Nicknames ==
  {Str(""), Str("qiqi"), Str("$&"), Str("a$$b"), Str("$"), Str("$`"), Str("$'"),
   Str("$1"), Num(5), Null}

\* documents that are not a mapping at the top
Scalars ==
  {Null, Bool(FALSE), Bool(TRUE), Num(0), Num(5), Str(""), Str("text"),
   Arr(<<>>), Arr(<<Str("a")>>)}

\* intermediate nodes replaced by something that is not a mapping
Stems == {"meta", "profile", "profile.labels", "about.sections", "oshis.anime", "footer"}

Bodies ==
  {FullConfig, EmptyObj}
    \cup Scalars
    \cup {Without(FullConfig, p) : p \in Paths}
    \cup {With(base, p, v) : base \in {FullConfig, EmptyObj}, p \in Paths, v \in Shapes}
    \cup {With(FullConfig, p, v) : p \in Stems, v \in {Null, Str("text"), Num(5), Arr(<<>>)}}
    \cup {With(With(EmptyObj, "meta.titleTemplate", Str(t)), "profile.nickname", n) :
            t \in Templates, n \in Nicknames}
    \cup {With(With(EmptyObj, "footer.poweredLink", l), "footer.poweredBy", b) :
            l \in {Str(""), Str("https://x"), Num(5)}, b \in {Null, Str(""), Str("X")}}
    \cup {With(With(EmptyObj, "oshis.anime.items", Arr(s)), "oshis.anime.moreText", m) :
            s \in ItemSeqs, m \in {Null, Str(""), Str("and more")}}

(***************************************************************************)
(* The page before the script runs                                         *)
(***************************************************************************)
StaticElement(t) ==
  [exists |-> TRUE,
   content |-> Markup("static " \o t),
   attrs |-> [a \in AttrNames |-> "static " \o a]]

\* the page whose markup lacks the locators in missing
StaticDom(missing) ==
  [lang |-> "static lang",
   title |-> "static title",
   el |-> [t \in Targets |-> IF t \in missing THEN NoElement ELSE StaticElement(t)]]

MissingChoices ==
  {{}, {"src:profile.avatarSrc"}, {"footer.poweredLink"},
   {"header.title", "about.sections.likes.items", "oshis.anime.items"}, Targets}

\* the page as it was before the script ran
Dom0 == StaticDom({t \in Targets : ~dom.el[t].exists})

Idle == [fn |-> "none"]

(***************************************************************************)
(* init and loadConfig                                                     *)
(***************************************************************************)
Statuses == {200, 404, 500}
\* Response.ok
Ok(status) == status >= 200 /\ status <= 299

CatchMessage ==
  "Could not load content.json. Ensure the file exists and the server is running."

\* what the network has answered so far
Answer(kind, status) == [kind |-> kind, status |-> status]
NoAnswer == Answer("none", 0)

Init ==
  /\ phase = "unloaded"
  /\ fetches = 0
  /\ net = NoAnswer
  /\ config = Undef
  /\ dom \in {StaticDom(m) : m \in MissingChoices}
  /\ log = <<>>
  /\ applied = 0
  /\ threw = FALSE
  /\ box = NoElement
  /\ lastCall = Idle
  /\ gtree = Undef
  /\ gpath = ""
  /\ gres = Undef


\* init without its `if (!config) return`
InitContinue_NoReturn(cfg, d) == BindingPass(cfg, d)

\* init from the value loadConfig returned: `if (!config) return`, then
\* every statement of the binding pass before init yields again
InitContinue(cfg, d) ==
  IF ~Truthy(cfg) THEN [dom |-> d, applied |-> 0, threw |-> FALSE]
  ELSE BindingPass(cfg, d)

\* init resumes with cfg and runs to its end
Resume(cfg) ==
  LET r == InitContinue(cfg, dom)
  IN  /\ config' = cfg
      /\ dom' = r.dom
      /\ applied' = r.applied
      /\ threw' = r.threw
      /\ phase' = "done"

\* the script runs: init() calls loadConfig(), which awaits fetch
Start ==
  /\ phase = "unloaded"
  /\ phase' = "fetching"
  /\ fetches' = fetches + 1
  /\ UNCHANGED <<net, config, dom, log, applied, threw, fillVars, getVars>>

\* fetch rejects: the catch block logs and loadConfig returns null
FetchRejects ==
  /\ phase = "fetching"
  /\ net' = Answer("rejected", 0)
  /\ log' = Append(log, [msg |-> CatchMessage, e |-> "TypeError: Failed to fetch"])
  /\ Resume(Null)
  /\ UNCHANGED <<fetches, fillVars, getVars>>

\* fetch resolves with !resp.ok: one log line and loadConfig returns null
RespNotOk ==
  /\ phase = "fetching"
  /\ \E status \in Statuses :
       /\ ~Ok(status)
       /\ net' = Answer("notok", status)
       /\ log' = Append(log, [msg |-> "Failed to load config: " \o NumToString(status),
                              e |-> ""])
  /\ Resume(Null)
  /\ UNCHANGED <<fetches, fillVars, getVars>>

\* fetch resolves with resp.ok: loadConfig awaits resp.json()
RespOk ==
  /\ phase = "fetching"
  /\ \E status \in Statuses :
       /\ Ok(status)
       /\ net' = Answer("ok", status)
  /\ phase' = "parsing"
  /\ UNCHANGED <<fetches, config, dom, log, applied, threw, fillVars, getVars>>

\* resp.json() rejects: the same catch block
JsonRejects ==
  /\ phase = "parsing"
  /\ net' = Answer("badjson", net.status)
  /\ log' = Append(log, [msg |-> CatchMessage, e |-> "SyntaxError"])
  /\ Resume(Null)
  /\ UNCHANGED <<fetches, fillVars, getVars>>

\* resp.json() resolves with the parsed document
JsonResolves ==
  /\ phase = "parsing"
  /\ net' = Answer("parsed", net.status)
  /\ \E body \in Bodies : Resume(body)
  /\ UNCHANGED <<fetches, log, fillVars, getVars>>

Next ==
  \/ Start
  \/ FetchRejects
  \/ RespNotOk
  \/ RespOk
  \/ JsonRejects
  \/ JsonResolves

Spec == Init /\ [][Next]_vars

(***************************************************************************)
(* The container fillers called on their own, any number of times          *)
(***************************************************************************)
\* a container as the page or an earlier call may have left it
Boxes ==
  {NoElement, StaticElement("box"),
   [StaticElement("box") EXCEPT !.content = Nodes(<<>>)],
   [StaticElement("box") EXCEPT !.content =
      Nodes(<<TagWidget("tag", "tag-text", Str("old"))>>)]}

\* what a caller may pass for the list: sequences of strings, or no list
ListArgs == {Arr(s) : s \in ItemSeqs} \cup {Null, Str("ab")}
MoreArgs == {Null, Str(""), Str("and more")}
TagArgs == {"div", "p"}

InitFill ==
  /\ box \in Boxes
  /\ lastCall = Idle
  /\ phase = "unloaded"
  /\ fetches = 0
  /\ net = NoAnswer
  /\ config = Undef
  /\ dom = StaticDom({})
  /\ log = <<>>
  /\ applied = 0
  /\ threw = FALSE
  /\ gtree = Undef
  /\ gpath = ""
  /\ gres = Undef

CallFillList ==
  \E items \in ListArgs :
    /\ box' = fillList(box, items)
    /\ lastCall' = [fn |-> "fillList", before |-> box, items |-> items, more |-> Null,
                    tag |-> "div", asHtml |-> FALSE]
    /\ UNCHANGED <<loadVars, getVars>>

CallFillOshis ==
  \E items \in ListArgs, moreText \in MoreArgs :
    /\ box' = fillOshis(box, items, moreText)
    /\ lastCall' = [fn |-> "fillOshis", before |-> box, items |-> items, more |-> moreText,
                    tag |-> "div", asHtml |-> FALSE]
    /\ UNCHANGED <<loadVars, getVars>>

CallFillContainer ==
  \E lines \in ListArgs, tag \in TagArgs, asHtml \in BOOLEAN :
    /\ box' = fillContainer(box, lines, tag, asHtml)
    /\ lastCall' = [fn |-> "fillContainer", before |-> box, items |-> lines, more |-> Null,
                    tag |-> tag, asHtml |-> asHtml]
    /\ UNCHANGED <<loadVars, getVars>>

NextFill ==
  \/ CallFillList
  \/ CallFillOshis
  \/ CallFillContainer

SpecFill == InitFill /\ [][NextFill]_vars

(***************************************************************************)
(* The path resolver called on its own                                     *)
(***************************************************************************)
\* deepest nesting of mappings in a tree handed to getValue
MaxDepth == 2
\* most segments in a path handed to getValue
MaxSegs == 2

Leaves ==
  {Null, Str(""), Str("xy"), Num(0), Num(5), Bool(FALSE), Bool(TRUE),
   Arr(<<Str("p")>>)}

Keys == {"a", "b", ""}

RECURSIVE TreesUpTo(_)
\* the leaves and the mappings, nested at most n deep, of one or two keys
TreesUpTo(n) ==
  IF n = 0 THEN Leaves \cup {EmptyObj}
  ELSE TreesUpTo(n - 1)
         \cup {Obj([x \in {k} |-> c]) : k \in Keys, c \in TreesUpTo(n - 1)}
         \cup {Obj([x \in {"a", "b"} |-> IF x = "a" THEN c ELSE Str("other")]) :
                 c \in TreesUpTo(n - 1)}

Segments == Keys \cup {"length", "0", "constructor"}

RECURSIVE PathsUpTo(_)
\* the paths of at most n segments; the empty string is one of them
PathsUpTo(n) ==
  IF n = 1 THEN Segments
  ELSE PathsUpTo(n - 1) \cup {p \o "." \o k : p \in PathsUpTo(n - 1), k \in Segments}

InitGet ==
  /\ gtree \in TreesUpTo(MaxDepth)
  /\ gpath \in PathsUpTo(MaxSegs)
  /\ gres = Undef
  /\ box = NoElement
  /\ lastCall = Idle
  /\ phase = "unloaded"
  /\ fetches = 0
  /\ net = NoAnswer
  /\ config = Undef
  /\ dom = StaticDom({})
  /\ log = <<>>
  /\ applied = 0
  /\ threw = FALSE

\* getValue(gtree, gpath) returns; it has no access to the tree but to read it
CallGetValue ==
  /\ gres = Undef
  /\ gres' = getValue(gtree, gpath)
  /\ UNCHANGED <<gtree, gpath, loadVars, fillVars>>

NextGet == CallGetValue

SpecGet == InitGet /\ [][NextGet]_vars

(***************************************************************************)
(* Reading the page back                                                   *)
(***************************************************************************)
\* the bindings as the specification counts them: the statements of init,
\* with the text of the footer link as the binding of footer.poweredBy
Entries == Table \o <<B("linktext", "footer.poweredBy", "footer.poweredLink", "")>>

\* the slot of its target an entry writes
SlotOf(e) ==
  CASE e.kind \in {"lang", "title", "attr", "alt", "link"} -> e.attr
    [] OTHER -> "content"

\* the value now in the slot of e
Read(d, e) ==
  IF e.target = "document" THEN (IF e.attr = "lang" THEN d.lang ELSE d.title)
  ELSE IF ~d.el[e.target].exists THEN "no element"
  ELSE IF SlotOf(e) = "content" THEN d.el[e.target].content
  ELSE d.el[e.target].attrs[SlotOf(e)]

TargetExists(d, e) == e.target = "document" \/ d.el[e.target].exists

\* the statement of init that carries entry i
StatementOf(i) == IF i > Len(Table) THEN Len(Table) ELSE i

\* the pass ran after a successful load
PassRan == phase = "done" /\ net.kind = "parsed" /\ Truthy(config)

Executed(i) == StatementOf(i) <= applied

Absent(e) == ~NotNullish(getValue(config, e.path))

\* the entries that write a fallback of their own when their path is absent
FallbackKinds == {"lang", "alt", "linktext"}

\* the text of a rendered label: no child at all stands for ""
LabelText(content) ==
  IF content.k = "nodes" THEN "" ELSE IF content.k = "text" THEN content.text ELSE content.html

Diagnostic(answer) ==
  CASE answer.kind = "notok" ->
         [msg |-> "Failed to load config: " \o NumToString(answer.status), e |-> ""]
    [] answer.kind = "rejected" ->
         [msg |-> CatchMessage, e |-> "TypeError: Failed to fetch"]
    [] OTHER -> [msg |-> CatchMessage, e |-> "SyntaxError"]

FetchFailed == net.kind \in {"rejected", "notok", "badjson"}

\* C2: when the fetch rejects, answers with a non-success status or with a
\* body that is not JSON, no statement of the pass runs, the page keeps
\* every static value and exactly one diagnostic, that of the failure, is
\* logged.
C2_FailureLeavesPage ==
  (phase = "done" /\ FetchFailed) =>
    /\ dom = Dom0
    /\ applied = 0
    /\ ~threw
    /\ log = <<Diagnostic(net)>>

\* a load that ended on a 404
C2_Witness ==
  /\ phase = "done"
  /\ net = Answer("notok", 404)
  /\ Len(log) = 1

(***************************************************************************)
(* C3                                                                      *)
(***************************************************************************)
\* the value of the expected shape: a string, or a list for a container
WellShaped(e, value) ==
  IF e.kind \in {"list", "lines", "oshis"} THEN value.t = "arr" ELSE value.t = "str"

\* what the slot of e holds when it equals the value
Written(e, value) ==
  CASE e.kind \in {"text", "linktext"} -> SetTextContent(value)
    [] e.kind = "html" -> SetInnerHTML(value)
    [] e.kind = "list" -> fillList(StaticElement(e.target), value).content
    [] e.kind = "lines" ->
         fillContainer(StaticElement(e.target), value, "div", TRUE).content
    [] e.kind = "oshis" ->
         fillOshis(StaticElement(e.target), value,
                   getValue(config, "oshis.anime.moreText")).content
    [] OTHER -> value.s

\* C3 as stated: after a pass that ran to its end, every binding whose path
\* holds a non-null value of the expected shape, the empty string included,
\* and whose target exists, has that value in its slot, whatever other
\* paths are present.  (The title is templated and is left to C8.)
C3_PresentValueWritten ==
  (PassRan /\ ~threw) =>
    \A i \in 1..Len(Entries) :
      LET e == Entries[i]
          value == getValue(config, e.path)
      IN  (e.kind # "title" /\ NotNullish(value) /\ WellShaped(e, value)
             /\ TargetExists(dom, e)) =>
            Read(dom, e) = Written(e, value)

(***************************************************************************)
(* C4                                                                      *)
(***************************************************************************)
\* C4 as stated: whatever the shape of the values of a document that parsed,
\* no exception leaves init and every statement of the pass is executed.
C4_NoExceptionEscapes ==
  (phase = "done" /\ net.kind = "parsed") =>
    /\ ~threw
    /\ (Truthy(config) => applied = Len(Table))

(***************************************************************************)
(* C5                                                                      *)
(***************************************************************************)
Loaded == phase = "done" /\ applied = Len(Table) /\ ~threw
Failed == phase = "done" /\ applied = 0 /\ dom = Dom0

\* C5 as stated: one fetch at most; the load ends with every binding
\* applied iff the response was a success whose body parsed, whatever JSON
\* value it is, and with none applied iff the fetch failed; it never ends
\* with only some bindings applied.
C5_TwoOutcomes ==
  /\ fetches <= 1
  /\ phase = "done" =>
       /\ fetches = 1
       /\ Loaded <=> net.kind = "parsed"
       /\ Failed <=> FetchFailed
       /\ Loaded \/ Failed

(***************************************************************************)
(* C6                                                                      *)
(***************************************************************************)
\* the paths the slot of an entry is computed from
InputsOf(e) ==
  CASE e.kind = "title" -> <<"meta.titleTemplate", "profile.nickname">>
    [] e.kind = "oshis" -> <<"oshis.anime.items", "oshis.anime.moreText">>
    [] OTHER -> <<e.path>>

RECURSIVE OnlyFrom(_, _, _)
\* the document that keeps of cfg nothing but the listed paths
OnlyFrom(cfg, paths, i) ==
  IF i > Len(paths) THEN EmptyObj
  ELSE LET rest == OnlyFrom(cfg, paths, i + 1)
           value == getValue(cfg, paths[i])
       IN  IF NotNullish(value) THEN With(rest, paths[i], value) ELSE rest

Reversed == [i \in 1..Len(Table) |-> Len(Table) + 1 - i]
Orders == {Reversed}

\* no two entries write the same slot of the same target
DistinctSlots ==
  \A i, j \in 1..Len(Entries) :
    (i # j) => <<Entries[i].target, SlotOf(Entries[i])>>
                 # <<Entries[j].target, SlotOf(Entries[j])>>

\* the slot of entry i after its statement alone ran on the static page,
\* with a document that holds nothing but the paths of the entry
Alone(i) ==
  Read(Step(Table[StatementOf(i)], OnlyFrom(config, InputsOf(Entries[i]), 1), Dom0).dom,
       Entries[i])

\* C6 as stated, for a pass that ran to its end: the statements run in
\* another order leave the same page, the slot of every binding is what its
\* statement alone writes from its own path, whatever other paths are
\* present, and no two bindings write the same slot of the same target.
C6_OrderIndependent ==
  (PassRan /\ ~threw) =>
    /\ DistinctSlots
    /\ \A i \in 1..Len(Entries) : Read(dom, Entries[i]) = Alone(i)
    /\ \A order \in Orders : RunOrder(order, 1, config, Dom0).dom = dom

(***************************************************************************)
(* C8                                                                      *)
(***************************************************************************)
Token == "{nickname}"

\* s with the first occurrence of pat replaced by r as it stands
Verbatim(s, pat, r) ==
  LET pos == IndexFrom(s, pat, 1)
  IN  SubSeq(s, 1, pos - 1) \o r \o SubSeq(s, pos + Len(pat), Len(s))

\* C8 as stated: after a pass that ran to its end, a template that holds the
\* token gives the title with the token replaced by the nickname as it
\* stands, by "" when the nickname is absent; an absent template leaves the
\* title alone.
C8_TitleIsTemplate ==
  (PassRan /\ ~threw) =>
    LET titleTemplate == getValue(config, "meta.titleTemplate")
        nickname == getValue(config, "profile.nickname")
    IN  /\ (titleTemplate.t = "str" /\ IndexFrom(titleTemplate.s, Token, 1) > 0
              /\ nickname.t \in {"str", "null"}) =>
             dom.title = Verbatim(titleTemplate.s, Token,
                                  IF nickname.t = "str" THEN nickname.s ELSE "")
        /\ titleTemplate.t = "null" => dom.title = Dom0.title

(***************************************************************************)
(* C7                                                                      *)
(***************************************************************************)
RECURSIVE Lookup(_, _, _)
\* the value at keys[i..] below node when every node on the way is a
\* mapping that holds the segment with a non-null value, null otherwise
Lookup(node, keys, i) ==
  IF i > Len(keys) THEN node
  ELSE IF node.t = "obj" /\ keys[i] \in DOMAIN node.props
            /\ NotNullish(node.props[keys[i]])
       THEN Lookup(node.props[keys[i]], keys, i + 1)
       ELSE Null

\* C7 as stated: for every tree and every non-empty path getValue returns
\* the value stored at the path when every segment exists, and null when a
\* segment is missing, null, or reached through something that is not a
\* mapping.
C7_ResolverContract ==
  (gres # Undef /\ gpath # "") => gres = Lookup(gtree, Split(gpath), 1)

(***************************************************************************)
(* C9                                                                      *)
(***************************************************************************)
Called == lastCall.fn # "none" /\ box.exists /\ lastCall.items.t = "arr"

\* the label a filler rendered for one item
LabelOf(fn, kid) ==
  IF fn = "fillContainer" THEN LabelText(kid.content)
  ELSE LabelText(kid.content.kids[1].content.kids[1].content)

\* the children that stand for items: all but the "more" element
ItemKids(kids) ==
  SelectSeq(kids, LAMBDA kid :
    ~(kid.content.k = "nodes" /\ Len(kid.content.kids) = 1
        /\ kid.content.kids[1].class = "oshi-meta-tag"))

\* C9: after any filler was called on an existing container with a list of
\* strings, whatever the container held before, its item children are the
\* labels of the list, as many and in the same order, duplicates kept; so a
\* second call with the same list leaves the same subtree.
C9_FillReplaces ==
  Called =>
    /\ box.content.k = "nodes"
    /\ LET kids == ItemKids(box.content.kids)
           items == lastCall.items.items
       IN  /\ Len(kids) = Len(items)
           /\ \A i \in 1..Len(items) : LabelOf(lastCall.fn, kids[i]) = items[i].s

\* a filler called with a duplicate entry on a container an earlier call
\* had filled
C9_Witness ==
  /\ Called
  /\ lastCall.fn = "fillList"
  /\ lastCall.items = Arr(<<Str("a"), Str("a")>>)
  /\ lastCall.before.exists
  /\ lastCall.before.content = Nodes(<<TagWidget("tag", "tag-text", Str("b"))>>)
  /\ Len(box.content.kids) = 2

(***************************************************************************)
(* C10                                                                     *)
(***************************************************************************)
\* C10: fillOshis called on an existing container with a list leaves one
\* element after the item widgets, the last, carrying the supplementary
\* text, when that text is a non-empty string, and none when it is absent
\* or empty.
C10_MoreElement ==
  (Called /\ lastCall.fn = "fillOshis") =>
    LET kids == box.content.kids
        n == Len(lastCall.items.items)
        more == lastCall.more
    IN  IF more.t = "str" /\ more.s # ""
        THEN /\ Len(kids) = n + 1
             /\ kids[n + 1].content.kids[1].class = "oshi-meta-tag"
             /\ LabelOf("fillOshis", kids[n + 1]) = more.s
        ELSE Len(kids) = n

\* fillOshis called with two items and a supplementary text
C10_Witness ==
  /\ Called
  /\ lastCall.fn = "fillOshis"
  /\ Len(lastCall.items.items) = 2
  /\ lastCall.more = Str("and more")
  /\ Len(box.content.kids) = 3

====
